---- MODULE Spec2Model ----
(***************************************************************************)
(* A model of the sloggers logger factory: the filter configuration        *)
(* builders (types.rs), the drain composition pipeline (misc.rs,           *)
(* terminal.rs), the destination decorator (terminal.rs) and the           *)
(* builder / configuration dispatch (build.rs, config.rs, null.rs).        *)
(***************************************************************************)
EXTENDS Naturals, Sequences, FiniteSets

VARIABLES
    \* --- filter compilation (types.rs) ---
    subject,      \* the PassIfMatch or FilterConfig value last compiled
    compiled,     \* the FilterSpec that to_filter_spec returned for it
    verdict,      \* the record evaluated against `compiled`, with the outcome
    fpc,          \* "new", then "compiled", then "evaluated"
    \* --- the built logger at work (misc.rs, terminal.rs, null.rs, build.rs) ---
    config,       \* the LoggerConfig value the logger is made from
    builder,      \* the LoggerBuilder try_to_builder() returned
    phase,        \* "config", "new" (a builder), then "built" or "failed"
    term,         \* the terminal acquisition of build(): "unasked", "ok", "failed"
    logger,       \* the Logger build() returned: its drain chain and bound fields
    ret_guard,    \* the Option<AsyncGuard> build() returned: "Some" or "None"
    chan,         \* the bounded channel between the callers and the worker
    worker,       \* the worker thread: "none", "recv", "writing", "done"
    cur,          \* the record the worker is writing
    sink,         \* what the sink has received, in order, with the writing thread
    guard,        \* the AsyncGuard: "none", "held", "joining", "closed"
    log,          \* every log call so far: the record and what became of it
    producers,    \* the caller threads that have logged
    \* --- making a configuration (config.rs, terminal.rs) ---
    doc,          \* the configuration document given to the deserializer
    made,         \* the Result<LoggerConfig> that was made
    origin,       \* how far: "none", "default", "document", "value", "serialized",
                  \* "roundtrip", "converted" or "builder"
    orig,         \* the LoggerConfig value that is serialized or converted
    tb,           \* the Result<LoggerBuilder> of try_to_builder(), or the builder
                  \* TerminalLoggerBuilder::new() made and the setters work on
    assigned,     \* for each builder field, the value last given to its setter
    \* --- parsing an enumeration literal (types.rs) ---
    which,        \* the enumeration whose from_str is called
    literal,      \* the string given to it, as its sequence of characters
    parsed,       \* the Result it returned
    ppc           \* "new", then "parsed"

filterVars == <<subject, compiled, verdict, fpc>>

pipeVars == <<config, builder, phase, term, logger, ret_guard, chan, worker, cur, sink, guard,
              log, producers>>

confVars == <<doc, made, origin, orig, tb, assigned>>

parseVars == <<which, literal, parsed, ppc>>

vars == <<subject, compiled, verdict, fpc,
          config, builder, phase, term, logger, ret_guard, chan, worker, cur, sink,
          guard, log, producers, doc, made, origin, orig, tb, assigned,
          which, literal, parsed, ppc>>

None == "None"

(***************************************************************************)
(* Bounds of the model.                                                    *)
(***************************************************************************)
\* longest keys_and_values list of a PassIfMatch
MaxPairs == 2
\* longest passes list of a FilterConfig::PassOnAnyOf
MaxPasses == 1
\* largest channel_size a builder is given (sizes 0 .. MaxChan)
MaxChan == 2
\* most log calls made on one logger
MaxLog == 3
MaxLiteral == 3

(***************************************************************************)
(* types.rs: Severity and its conversion to slog's Level.                  *)
(***************************************************************************)
\* enum Severity, in declaration order (the derived Ord follows that order)
Severity == {"trace", "debug", "info", "warning", "error", "critical"}

\* #[derive(PartialOrd, Ord)] on Severity: the discriminant, Trace lowest
SeverityOrd(s) ==
    CASE s = "trace"    -> 0
      [] s = "debug"    -> 1
      [] s = "info"     -> 2
      [] s = "warning"  -> 3
      [] s = "error"    -> 4
      [] s = "critical" -> 5

\* impl Default for Severity
Severity_default == "info"

\* Severity::as_level
as_level(s) ==
    CASE s = "trace"    -> "Trace"
      [] s = "debug"    -> "Debug"
      [] s = "info"     -> "Info"
      [] s = "warning"  -> "Warning"
      [] s = "error"    -> "Error"
      [] s = "critical" -> "Critical"

\* slog::Level::as_usize: Critical is 1, Trace is 6
Level_as_usize(l) ==
    CASE l = "Critical" -> 1
      [] l = "Error"    -> 2
      [] l = "Warning"  -> 3
      [] l = "Info"     -> 4
      [] l = "Debug"    -> 5
      [] l = "Trace"    -> 6

\* slog::Level::is_at_least: self is at least as severe as `other`
is_at_least(l, other) == Level_as_usize(l) <= Level_as_usize(other)

(***************************************************************************)
(* The filter expression model (slog_kvfilter::FilterSpec), a tree.        *)
(***************************************************************************)
LevelAtLeast(l) == [op |-> "LevelAtLeast", level |-> l]
match_kv(k, v)  == [op |-> "MatchKV", key |-> k, value |-> v]
And(a, b)       == [op |-> "And", a |-> a, b |-> b]
Or(a, b)        == [op |-> "Or", a |-> a, b |-> b]
Not(a)          == [op |-> "Not", a |-> a]
all_of(list)    == [op |-> "AllOf", list |-> list]
any_of(list)    == [op |-> "AnyOf", list |-> list]

RECURSIVE Evaluate(_, _, _)
\* evaluate(spec, level, key_values): the record's level and its key-value
\* attributes (a set of <<key, value>> pairs) against the expression tree
Evaluate(spec, level, kv) ==
    CASE spec.op = "LevelAtLeast" -> is_at_least(level, spec.level)
      [] spec.op = "MatchKV"      -> <<spec.key, spec.value>> \in kv
      [] spec.op = "And"          -> Evaluate(spec.a, level, kv) /\ Evaluate(spec.b, level, kv)
      [] spec.op = "Or"           -> Evaluate(spec.a, level, kv) \/ Evaluate(spec.b, level, kv)
      [] spec.op = "Not"          -> ~Evaluate(spec.a, level, kv)
      [] spec.op = "AllOf"        ->
            \A i \in DOMAIN spec.list : Evaluate(spec.list[i], level, kv)
      [] spec.op = "AnyOf"        ->
            \E i \in DOMAIN spec.list : Evaluate(spec.list[i], level, kv)

(***************************************************************************)
(* types.rs: PassIfMatch and FilterConfig.                                 *)
(***************************************************************************)
\* PassIfMatch::new
PassIfMatch(keys_and_values, severity) ==
    [type |-> "PassIfMatch",
     keys_and_values |-> keys_and_values,
     severity_at_least |-> severity]

\* PassIfMatch::to_filter_spec requiring only the first pair of the list
PassIfMatch_to_filter_spec_first(p) ==
    And(LevelAtLeast(as_level(p.severity_at_least)),
        all_of([i \in (DOMAIN p.keys_and_values) \cap {1} |->
                    match_kv(p.keys_and_values[i][1], p.keys_and_values[i][2])]))

\* PassIfMatch::to_filter_spec
PassIfMatch_to_filter_spec(p) ==
    LET match_filters ==
            [i \in DOMAIN p.keys_and_values |->
                match_kv(p.keys_and_values[i][1], p.keys_and_values[i][2])]
    IN  And(LevelAtLeast(as_level(p.severity_at_least)), all_of(match_filters))

\* FilterConfig::PassOnAnyOf
PassOnAnyOf(severity, passes) ==
    [type |-> "PassOnAnyOf",
     always_pass_on_severity_at_least |-> severity,
     passes |-> passes]

\* FilterConfig::Custom
Custom(filter_spec) == [type |-> "Custom", filter_spec |-> filter_spec]

\* FilterConfig::always_pass_on_severity_at_least
always_pass_on_severity_at_least(severity) == PassOnAnyOf(severity, <<>>)

\* impl Default for FilterConfig
FilterConfig_default == PassOnAnyOf(Severity_default, <<>>)

\* FilterConfig::to_filter_spec joining the threshold and the passes with and
FilterConfig_to_filter_spec_and(c) ==
    IF c.type = "PassOnAnyOf"
    THEN And(LevelAtLeast(as_level(c.always_pass_on_severity_at_least)),
             any_of([i \in DOMAIN c.passes |-> PassIfMatch_to_filter_spec(c.passes[i])]))
    ELSE c.filter_spec

\* FilterConfig::to_filter_spec
FilterConfig_to_filter_spec(c) ==
    IF c.type = "PassOnAnyOf"
    THEN LET variant_filters ==
                [i \in DOMAIN c.passes |-> PassIfMatch_to_filter_spec(c.passes[i])]
         IN  Or(LevelAtLeast(as_level(c.always_pass_on_severity_at_least)),
                any_of(variant_filters))
    ELSE c.filter_spec

(***************************************************************************)
(* types.rs, terminal.rs: the simple enumerations and their defaults.      *)
(***************************************************************************)
Format == {"full", "compact"}
Format_default == "full"

TimeZone == {"utc", "local"}
TimeZone_default == "local"

SourceLocation == {"none", "module_and_line"}
SourceLocation_default == "module_and_line"

Destination == {"stdout", "stderr"}
Destination_default == "stdout"

(***************************************************************************)
(* terminal.rs: the destination decorator.                                 *)
(***************************************************************************)
\* Destination::to_decorator whose fallback always takes standard output
to_decorator_stdout(destination, term_ok) ==
    IF term_ok
    THEN [variant |-> "Term", stream |-> destination]
    ELSE [variant |-> "PlainStdout", stream |-> "stdout"]

\* Destination::to_decorator. term_ok: TermDecorator's try_build returned Some
to_decorator(destination, term_ok) ==
    LET maybe_term_decorator ==
            CASE destination = "stdout" ->
                    [some |-> term_ok, variant |-> "Term", stream |-> "stdout"]
              [] destination = "stderr" ->
                    [some |-> term_ok, variant |-> "Term", stream |-> "stderr"]
    IN  IF maybe_term_decorator.some
        THEN [variant |-> "Term", stream |-> maybe_term_decorator.stream]
        ELSE CASE destination = "stdout" ->
                    [variant |-> "PlainStdout", stream |-> "stdout"]
               [] destination = "stderr" ->
                    [variant |-> "PlainStderr", stream |-> "stderr"]

(***************************************************************************)
(* terminal.rs, null.rs, config.rs: builders and the conversion of a       *)
(* configuration to its builder.                                           *)
(***************************************************************************)
\* slog_kvfilter::EvaluationOrder: the logger's fields first, or the message's
EvaluationOrder == {"LoggerAndMessage", "MessageAndLogger"}
EvaluationOrder_default == "LoggerAndMessage"

\* the channel_size TerminalLoggerBuilder::new starts from
NewChannelSize == 1024

\* TerminalLoggerBuilder::new
TerminalLoggerBuilder_new ==
    [kind |-> "Terminal",
     format |-> Format_default,
     source_location |-> SourceLocation_default,
     timezone |-> TimeZone_default,
     destination |-> Destination_default,
     channel_size |-> NewChannelSize,
     evaluation_order |-> EvaluationOrder_default,
     filter_config |-> FilterConfig_default]

\* the fluent setters of TerminalLoggerBuilder
Builder_format(b, format)                     == [b EXCEPT !.format = format]
Builder_source_location(b, source_location)   == [b EXCEPT !.source_location = source_location]
\* the timezone setter starting over from a fresh builder
Builder_timezone_fresh(b, timezone) == [TerminalLoggerBuilder_new EXCEPT !.timezone = timezone]
Builder_timezone(b, timezone)                 == [b EXCEPT !.timezone = timezone]
Builder_destination(b, destination)           == [b EXCEPT !.destination = destination]
Builder_channel_size(b, channel_size)         == [b EXCEPT !.channel_size = channel_size]
Builder_evaluation_order(b, evaluation_order) == [b EXCEPT !.evaluation_order = evaluation_order]
Builder_filter_config(b, filter_config)       == [b EXCEPT !.filter_config = filter_config]

\* struct TerminalLoggerBuilder: the fields its setters write
BuilderFields ==
    {"format", "source_location", "timezone", "destination", "channel_size",
     "evaluation_order", "filter_config"}

\* a builder fresh from new(): no setter has been called on it
NoneAssigned == [f \in BuilderFields |-> {}]

\* impl Config for TerminalLoggerConfig: try_to_builder
TerminalLoggerConfig_try_to_builder(c) ==
    LET b0 == TerminalLoggerBuilder_new
        b1 == Builder_format(b0, c.format)
        b2 == Builder_source_location(b1, c.source_location)
        b3 == Builder_timezone(b2, c.timezone)
        b4 == Builder_destination(b3, c.destination)
        b5 == Builder_channel_size(b4, c.channel_size)
        b6 == Builder_evaluation_order(b5, c.evaluation_order)
        b7 == Builder_filter_config(b6, c.filter_config)
    IN  [ok |-> TRUE, builder |-> b7]

\* struct NullLoggerBuilder
NullLoggerBuilder == [kind |-> "Null"]

\* impl Config for NullLoggerConfig: try_to_builder
NullLoggerConfig_try_to_builder(c) == [ok |-> TRUE, builder |-> NullLoggerBuilder]

\* impl Config for FileLoggerConfig: try_to_builder, as far as the drain
\* composition reads the builder
FileLoggerConfig_try_to_builder(c) ==
    [ok |-> TRUE,
     builder |-> [kind |-> "File", format |-> c.format,
                  source_location |-> c.source_location, timezone |-> c.timezone,
                  channel_size |-> c.channel_size,
                  evaluation_order |-> c.evaluation_order,
                  filter_config |-> c.filter_config]]

\* impl Config for LoggerConfig: try_to_builder
LoggerConfig_try_to_builder(c) ==
    CASE c.type = "file"     -> FileLoggerConfig_try_to_builder(c)
      [] c.type = "null"     -> NullLoggerConfig_try_to_builder(c)
      [] c.type = "terminal" -> TerminalLoggerConfig_try_to_builder(c)

(***************************************************************************)
(* misc.rs, terminal.rs, null.rs: composing the drain chain.  A chain is   *)
(* the sequence of its drains, the outermost (the one the Logger calls)    *)
(* first and the raw sink last.                                            *)
(***************************************************************************)
KVFilterLayer(filter_spec) == [layer |-> "kvfilter", filter_spec |-> filter_spec]
AsyncLayer(chan_size)      == [layer |-> "async", chan_size |-> chan_size]
SinkLayer(desc)            == [layer |-> "sink", desc |-> desc]
DiscardLayer               == [layer |-> "discard"]

\* o!(): the bound fields of a root logger, by key
NoValues == {}
\* o!("module" => FnValue(module_and_line))
ModuleValues == {"module"}

\* misc::module_and_line giving the line of the first log statement
module_and_line_first(site) == <<site.module, ":", 10>>

\* misc::module_and_line: format!("{}:{}", record.module(), record.line())
module_and_line(site) == <<site.module, ":", site.line>>

\* misc::build_with_drain with the filter wrapped by the asynchronous stage
build_with_drain_filter_inside(drain, channel_size, filter_spec, source_location) ==
    [ok |-> TRUE,
     logger |-> [drain |-> <<AsyncLayer(channel_size), KVFilterLayer(filter_spec), drain>>,
                 values |-> IF source_location = "none" THEN NoValues ELSE ModuleValues],
     guard |-> "Some"]

\* misc::build_with_drain: Async inside, KVFilter outside, then Logger::root;
\* the guard of build_with_guard is always returned
build_with_drain(drain, channel_size, filter_spec, source_location) ==
    LET async == <<AsyncLayer(channel_size), drain>>
        kv_filter == <<KVFilterLayer(filter_spec)>> \o async
    IN  [ok |-> TRUE,
         logger |-> [drain |-> kv_filter,
                     values |-> CASE source_location = "none" -> NoValues
                                  [] source_location = "module_and_line" -> ModuleValues],
         guard |-> "Some"]

\* TerminalLoggerBuilder::build_with_drain: the same chain from Async's plain
\* build(); only the Logger is returned
Terminal_build_with_drain(b, drain) ==
    LET async == <<AsyncLayer(b.channel_size), drain>>
        filter_spec == FilterConfig_to_filter_spec(b.filter_config)
        kv_filter == <<KVFilterLayer(filter_spec)>> \o async
    IN  [drain |-> kv_filter,
         values |-> CASE b.source_location = "none" -> NoValues
                      [] b.source_location = "module_and_line" -> ModuleValues]

\* impl Build for TerminalLoggerBuilder
TerminalLoggerBuilder_build(b, term_ok) ==
    LET decorator == to_decorator(b.destination, term_ok)
        format == SinkLayer([format |-> b.format, timezone |-> b.timezone,
                             decorator |-> decorator])
    IN  [ok |-> TRUE,
         logger |-> Terminal_build_with_drain(b, format),
         guard |-> "None"]

\* NullLoggerBuilder::build handing back a guard
NullLoggerBuilder_build_guarded ==
    [ok |-> TRUE,
     logger |-> [drain |-> <<DiscardLayer>>, values |-> NoValues],
     guard |-> "Some"]

\* impl Build for NullLoggerBuilder: Logger::root(Discard, o!()) and no guard
NullLoggerBuilder_build ==
    [ok |-> TRUE,
     logger |-> [drain |-> <<DiscardLayer>>, values |-> NoValues],
     guard |-> "None"]

\* the logger of a build that failed
NoLogger == [drain |-> <<>>, values |-> NoValues]

\* FileLoggerBuilder::build: opening the file may fail; the opened file is the
\* sink that misc::build_with_drain wraps
FileLoggerBuilder_build(b, io_ok) ==
    IF io_ok
    THEN build_with_drain(SinkLayer([format |-> b.format, timezone |-> b.timezone,
                                     decorator |-> [variant |-> "File", stream |-> "file"]]),
                          b.channel_size,
                          FilterConfig_to_filter_spec(b.filter_config),
                          b.source_location)
    ELSE [ok |-> FALSE, logger |-> NoLogger, guard |-> "None"]

\* impl Build for LoggerBuilder: dispatch on the variant
LoggerBuilder_build(b, term_ok, io_ok) ==
    CASE b.kind = "File"     -> FileLoggerBuilder_build(b, io_ok)
      [] b.kind = "Null"     -> NullLoggerBuilder_build
      [] b.kind = "Terminal" -> TerminalLoggerBuilder_build(b, term_ok)

(***************************************************************************)
(* Inputs of the filter compilation.                                       *)
(***************************************************************************)
\* the (key, value) pairs a configuration may require
ConfigPairs == {<<"key1", "value1">>, <<"key2", "value2">>}

\* the (key, value) attributes a record may carry: the same, and key1 with
\* another value
RecordPairs == ConfigPairs \cup {<<"key1", "value2">>}

\* the attribute sets of a record
KVSets == SUBSET RecordPairs

\* lists of distinct pairs of ConfigPairs, at most n long
RECURSIVE PairListsUpTo(_)
PairListsUpTo(n) ==
    IF n = 0 THEN {<<>>}
    ELSE LET shorter == PairListsUpTo(n - 1)
         IN  shorter \cup
             {Append(l, p) : l \in {s \in shorter : Len(s) = n - 1},
                             p \in ConfigPairs}

Distinct(l) == \A i, j \in DOMAIN l : i # j => l[i] # l[j]

PairLists == {l \in PairListsUpTo(MaxPairs) : Distinct(l)}

PassIfMatches == {PassIfMatch(l, s) : l \in PairLists, s \in Severity}

RECURSIVE PassListsUpTo(_)
PassListsUpTo(n) ==
    IF n = 0 THEN {<<>>}
    ELSE LET shorter == PassListsUpTo(n - 1)
         IN  shorter \cup
             {Append(l, p) : l \in {s \in shorter : Len(s) = n - 1},
                             p \in PassIfMatches}

\* hand-built expression trees for FilterConfig::Custom
CustomSpecs ==
    {Not(LevelAtLeast("Info")),
     all_of(<<>>),
     any_of(<<>>),
     And(match_kv("key1", "value1"), Not(match_kv("key2", "value2")))}

FilterConfigs ==
    {PassOnAnyOf(s, l) : s \in Severity, l \in PassListsUpTo(MaxPasses)}
    \cup {Custom(f) : f \in CustomSpecs}

(***************************************************************************)
(* The filter compilation as a state machine: compile a value, then        *)
(* evaluate records against what was compiled.                             *)
(***************************************************************************)
\* the values to_filter_spec may be called on
FilterSubjects == PassIfMatches \cup FilterConfigs

\* no logger is being built or used
PipeIdle ==
    /\ config = [type |-> "null"]
    /\ builder = [kind |-> "Null"]
    /\ phase = "off"
    /\ term = "unasked"
    /\ logger = NoLogger
    /\ ret_guard = "None"
    /\ chan = <<>>
    /\ worker = "none"
    /\ cur = None
    /\ sink = <<>>
    /\ guard = "none"
    /\ log = <<>>
    /\ producers = {}

\* no configuration is being made
ConfIdle ==
    /\ doc = [type |-> "null"]
    /\ made = [ok |-> FALSE]
    /\ origin = "none"
    /\ orig = [type |-> "null"]
    /\ tb = [ok |-> FALSE]
    /\ assigned = NoneAssigned

\* no literal is being parsed
ParseIdle ==
    /\ which = "Severity"
    /\ literal = <<>>
    /\ parsed = [ok |-> FALSE]
    /\ ppc = "off"

\* no filter is being compiled
FilterIdle ==
    /\ subject = FilterConfig_default
    /\ compiled = None
    /\ verdict = None
    /\ fpc = "off"

FilterInit ==
    /\ subject \in FilterSubjects
    /\ compiled = None
    /\ verdict = None
    /\ fpc = "new"
    /\ PipeIdle
    /\ ConfIdle
    /\ ParseIdle

\* p.to_filter_spec() for a PassIfMatch
CompilePass ==
    /\ fpc = "new"
    /\ subject.type = "PassIfMatch"
    /\ compiled' = PassIfMatch_to_filter_spec(subject)
    /\ fpc' = "compiled"
    /\ UNCHANGED <<subject, verdict>>
    /\ UNCHANGED pipeVars
    /\ UNCHANGED confVars
    /\ UNCHANGED parseVars

\* c.to_filter_spec() for a FilterConfig
CompileConfig ==
    /\ fpc = "new"
    /\ subject.type \in {"PassOnAnyOf", "Custom"}
    /\ compiled' = FilterConfig_to_filter_spec(subject)
    /\ fpc' = "compiled"
    /\ UNCHANGED <<subject, verdict>>
    /\ UNCHANGED pipeVars
    /\ UNCHANGED confVars
    /\ UNCHANGED parseVars

\* a record of severity s with attributes kv meets the compiled filter
EvaluateRecord ==
    /\ fpc = "compiled"
    /\ \E s \in Severity, kv \in KVSets :
            verdict' = [severity |-> s, kv |-> kv,
                        accepted |-> Evaluate(compiled, as_level(s), kv)]
    /\ fpc' = "evaluated"
    /\ UNCHANGED <<subject, compiled>>
    /\ UNCHANGED pipeVars
    /\ UNCHANGED confVars
    /\ UNCHANGED parseVars

FilterNext == CompilePass \/ CompileConfig \/ EvaluateRecord

SpecFilter == FilterInit /\ [][FilterNext]_vars

(***************************************************************************)
(* The built logger at work: callers log through the chain, the worker     *)
(* thread of the asynchronous stage serves the channel, the owner of the   *)
(* guard drops it.                                                         *)
(***************************************************************************)
\* the threads that call the logger
Callers == {"c1", "c2"}
\* the thread Async spawns
WorkerThread == "worker"

\* the log statements of the program: each has its place, level and fields
CallSites ==
    {[module |-> "app", line |-> 10, level |-> "Debug", kv |-> {}],
     [module |-> "app", line |-> 20, level |-> "Debug", kv |-> {<<"key1", "value1">>}],
     [module |-> "app", line |-> 30, level |-> "Info", kv |-> {}]}

\* the filter configurations the loggers are built with
PipeFilterConfigs ==
    {FilterConfig_default,
     PassOnAnyOf("info", <<PassIfMatch(<<<<"key1", "value1">>>>, "debug")>>)}

\* the configurations the loggers are made from
NullLoggerConfigs == {[type |-> "null"]}

TerminalLoggerConfigs ==
    {[type |-> "terminal", format |-> Format_default, source_location |-> sl,
      timezone |-> TimeZone_default, destination |-> d, channel_size |-> n,
      evaluation_order |-> EvaluationOrder_default, filter_config |-> fc] :
        sl \in SourceLocation, d \in Destination, n \in 0..MaxChan,
        fc \in PipeFilterConfigs}

FileLoggerConfigs ==
    {[type |-> "file", format |-> Format_default, source_location |-> sl,
      timezone |-> TimeZone_default, channel_size |-> n,
      evaluation_order |-> EvaluationOrder_default, filter_config |-> fc] :
        sl \in SourceLocation, n \in 0..MaxChan, fc \in PipeFilterConfigs}

\* enum LoggerConfig
LoggerConfigs == FileLoggerConfigs \cup NullLoggerConfigs \cup TerminalLoggerConfigs

\* the bound fields of a logger as a record sees them: FnValue is computed
\* per record
BoundFields(values, site) ==
    {<<k, module_and_line(site)>> : k \in values \cap {"module"}}

RECURSIVE Walk(_, _, _)
\* Drain::log down the chain from drain i, on the thread that calls it: where
\* the record ends up on that thread
Walk(drains, i, rec) ==
    IF i > Len(drains) THEN [kind |-> "none", at |-> i]
    ELSE CASE drains[i].layer = "kvfilter" ->
                IF Evaluate(drains[i].filter_spec, rec.level, rec.kv \cup rec.values)
                THEN Walk(drains, i + 1, rec)
                ELSE [kind |-> "rejected", at |-> i]
           [] drains[i].layer = "async"   -> [kind |-> "async", at |-> i]
           [] drains[i].layer = "sink"    -> [kind |-> "written", at |-> i]
           [] drains[i].layer = "discard" -> [kind |-> "discarded", at |-> i]

\* the asynchronous stage of a chain, if it has one
HasAsync(drains) == \E i \in DOMAIN drains : drains[i].layer = "async"

\* sync_channel(chan_size): room for one more message; a channel of size 0
\* hands over only to a receiver that is waiting
HasRoom(ch, chan_size, w) ==
    IF chan_size = 0 THEN w = "recv" /\ ch = <<>> ELSE Len(ch) < chan_size

\* Async::log that writes through on the calling thread when the channel is full
AsyncSend_through(ch, chan_size, w, m) ==
    CASE w = "done"                  -> [fate |-> "disconnected", chan |-> ch]
      [] w # "done" /\ HasRoom(ch, chan_size, w)
                                     -> [fate |-> "sent", chan |-> Append(ch, m)]
      [] OTHER                       -> [fate |-> "written", chan |-> ch]

\* Async::log that puts the record at the front of the channel
AsyncSend_front(ch, chan_size, w, m) ==
    CASE w = "done"                  -> [fate |-> "disconnected", chan |-> ch]
      [] w # "done" /\ HasRoom(ch, chan_size, w)
                                     -> [fate |-> "sent", chan |-> <<m>> \o ch]
      [] OTHER                       -> [fate |-> "dropped", chan |-> ch]

\* Async::log of a chain built with chan_size(n) and nothing else: try_send;
\* a record that finds the channel full is dropped, one that finds the worker
\* gone is an error (which Fuse turns into a panic)
AsyncSend(ch, chan_size, w, m) ==
    CASE w = "done"                  -> [fate |-> "disconnected", chan |-> ch]
      [] w # "done" /\ HasRoom(ch, chan_size, w)
                                     -> [fate |-> "sent", chan |-> Append(ch, m)]
      [] OTHER                       -> [fate |-> "dropped", chan |-> ch]

PipeInit ==
    /\ config \in LoggerConfigs
    /\ builder = NullLoggerBuilder
    /\ phase = "config"
    /\ term = "unasked"
    /\ logger = NoLogger
    /\ ret_guard = "None"
    /\ chan = <<>>
    /\ worker = "none"
    /\ cur = None
    /\ sink = <<>>
    /\ guard = "none"
    /\ log = <<>>
    /\ producers = {}
    /\ FilterIdle
    /\ ConfIdle
    /\ ParseIdle

\* config.try_to_builder()
TryToBuilder ==
    /\ phase = "config"
    /\ LET r == LoggerConfig_try_to_builder(config)
       IN  /\ phase' = IF r.ok THEN "new" ELSE "failed"
           /\ builder' = r.builder
    /\ UNCHANGED <<config, term, logger, ret_guard, chan, worker, cur, sink, guard,
                   log, producers>>
    /\ UNCHANGED filterVars
    /\ UNCHANGED confVars
    /\ UNCHANGED parseVars

\* builder.build(): whether the terminal and the file can be acquired is the
\* environment's choice
Build ==
    /\ phase = "new"
    /\ \E term_ok, io_ok \in BOOLEAN :
        LET r == LoggerBuilder_build(builder, term_ok, io_ok)
        IN  /\ phase' = IF r.ok THEN "built" ELSE "failed"
            /\ term' = IF builder.kind = "Terminal"
                       THEN (IF term_ok THEN "ok" ELSE "failed")
                       ELSE "unasked"
            /\ logger' = r.logger
            /\ ret_guard' = r.guard
            /\ worker' = IF HasAsync(r.logger.drain) THEN "recv" ELSE "none"
            /\ guard' = IF r.guard = "Some" THEN "held" ELSE "none"
    /\ UNCHANGED <<config, builder, chan, cur, sink, log, producers>>
    /\ UNCHANGED filterVars
    /\ UNCHANGED confVars
    /\ UNCHANGED parseVars

\* a caller thread runs one log statement
Log ==
    /\ phase = "built"
    /\ Len(log) < MaxLog
    /\ \E c \in Callers, site \in CallSites :
        LET rec == [id |-> Len(log) + 1, level |-> site.level, kv |-> site.kv,
                    line |-> site.line,
                    values |-> BoundFields(logger.values, site)]
            out == Walk(logger.drain, 1, rec)
            sent == IF out.kind = "async"
                    THEN AsyncSend(chan, logger.drain[out.at].chan_size, worker,
                                   [msg |-> "Record", rec |-> rec, at |-> out.at])
                    ELSE [fate |-> out.kind, chan |-> chan]
        IN  /\ log' = Append(log, [rec |-> rec, fate |-> sent.fate,
                                   late |-> guard \in {"joining", "closed"}])
            /\ chan' = sent.chan
            /\ sink' = IF sent.fate = "written"
                       THEN Append(sink, [rec |-> rec, writer |-> c])
                       ELSE sink
            /\ producers' = producers \cup {c}
    /\ UNCHANGED <<config, builder, phase, term, logger, ret_guard, worker, cur, guard>>
    /\ UNCHANGED filterVars
    /\ UNCHANGED confVars
    /\ UNCHANGED parseVars

\* the worker thread receives the next message: a record to write, or Finish
WorkerTake ==
    /\ worker = "recv"
    /\ chan # <<>>
    /\ chan' = Tail(chan)
    /\ IF Head(chan).msg = "Finish"
       THEN worker' = "done" /\ cur' = cur
       ELSE worker' = "writing" /\ cur' = Head(chan)
    /\ UNCHANGED <<config, builder, phase, term, logger, ret_guard, sink, guard, log, producers>>
    /\ UNCHANGED filterVars
    /\ UNCHANGED confVars
    /\ UNCHANGED parseVars

\* the worker thread passes the record to the drains inside the asynchronous
\* stage
WorkerWrite ==
    /\ worker = "writing"
    /\ LET out == Walk(logger.drain, cur.at + 1, cur.rec)
       IN  sink' = IF out.kind = "written"
                   THEN Append(sink, [rec |-> cur.rec, writer |-> WorkerThread])
                   ELSE sink
    /\ worker' = "recv"
    /\ UNCHANGED <<config, builder, phase, term, logger, ret_guard, chan, cur, guard, log, producers>>
    /\ UNCHANGED filterVars
    /\ UNCHANGED confVars
    /\ UNCHANGED parseVars

\* drop(guard), first half: Finish is sent with a blocking send
GuardDrop ==
    /\ guard = "held"
    /\ LET size == logger.drain[CHOOSE i \in DOMAIN logger.drain :
                                    logger.drain[i].layer = "async"].chan_size
       IN  /\ HasRoom(chan, size, worker)
           /\ chan' = Append(chan, [msg |-> "Finish"])
    /\ guard' = "joining"
    /\ UNCHANGED <<config, builder, phase, term, logger, ret_guard, worker, cur, sink, log, producers>>
    /\ UNCHANGED filterVars
    /\ UNCHANGED confVars
    /\ UNCHANGED parseVars

\* drop(guard), second half: join returns when the worker thread has ended
GuardJoin ==
    /\ guard = "joining"
    /\ worker = "done"
    /\ guard' = "closed"
    /\ UNCHANGED <<config, builder, phase, term, logger, ret_guard, chan, worker, cur, sink, log, producers>>
    /\ UNCHANGED filterVars
    /\ UNCHANGED confVars
    /\ UNCHANGED parseVars

Next == TryToBuilder \/ Build \/ Log \/ WorkerTake \/ WorkerWrite \/ GuardDrop \/ GuardJoin

Spec == PipeInit /\ [][Next]_vars

(***************************************************************************)
(* config.rs, terminal.rs: making a LoggerConfig, by Default or from a     *)
(* configuration document.  A document gives each field as the set of the  *)
(* values written for it: empty when the field is omitted.                 *)
(***************************************************************************)
\* fn default_channel_size
default_channel_size == 1024

\* #[derive(Default)] on TerminalLoggerConfig: every field is the Default of
\* its type, 0 for the usize
TerminalLoggerConfig_default ==
    [type |-> "terminal",
     format |-> Format_default,
     source_location |-> SourceLocation_default,
     timezone |-> TimeZone_default,
     destination |-> Destination_default,
     channel_size |-> 0,
     evaluation_order |-> EvaluationOrder_default,
     filter_config |-> FilterConfig_default]

\* impl Default for LoggerConfig
LoggerConfig_default == TerminalLoggerConfig_default

\* a field with a serde default: the value written, or the default
FieldOr(written, default) ==
    IF written = {} THEN default ELSE CHOOSE v \in written : TRUE

\* the one value written for a field
Written(field) == CHOOSE v \in field : TRUE

\* #[derive(Serialize)] on PassIfMatch: a map of its two fields, each pair of
\* keys_and_values written as a two-element array
PassIfMatch_serialize(p) ==
    [keys_and_values |->
        {[i \in DOMAIN p.keys_and_values |->
            <<p.keys_and_values[i][1], p.keys_and_values[i][2]>>]},
     severity_at_least |-> {p.severity_at_least}]

\* #[derive(Deserialize)] on PassIfMatch: both fields are required, a pair is
\* an array of exactly two strings
PassIfMatch_deserialize(d) ==
    IF d.keys_and_values = {} THEN [ok |-> FALSE, error |-> "missing field keys_and_values"]
    ELSE IF d.severity_at_least = {}
    THEN [ok |-> FALSE, error |-> "missing field severity_at_least"]
    ELSE IF \E i \in DOMAIN Written(d.keys_and_values) :
                Len(Written(d.keys_and_values)[i]) # 2
    THEN [ok |-> FALSE, error |-> "invalid length"]
    ELSE IF Written(d.severity_at_least) \notin Severity
    THEN [ok |-> FALSE, error |-> "unknown variant"]
    ELSE [ok |-> TRUE,
          value |-> [type |-> "PassIfMatch",
                     keys_and_values |-> Written(d.keys_and_values),
                     severity_at_least |-> Written(d.severity_at_least)]]

\* #[derive(Serialize)] #[serde(tag = "type")] on FilterConfig: a map holding
\* the variant name under "type" beside the variant's fields
FilterConfig_serialize(c) ==
    IF c.type = "PassOnAnyOf"
    THEN [type |-> "PassOnAnyOf",
          always_pass_on_severity_at_least |-> {c.always_pass_on_severity_at_least},
          passes |-> {[i \in DOMAIN c.passes |-> PassIfMatch_serialize(c.passes[i])]}]
    ELSE [type |-> "Custom", filter_spec |-> {c.filter_spec}]

\* #[derive(Deserialize)] #[serde(tag = "type")] on FilterConfig
FilterConfig_deserialize(d) ==
    CASE d.type = "PassOnAnyOf" ->
            IF d.always_pass_on_severity_at_least = {}
            THEN [ok |-> FALSE, error |-> "missing field always_pass_on_severity_at_least"]
            ELSE IF d.passes = {} THEN [ok |-> FALSE, error |-> "missing field passes"]
            ELSE IF Written(d.always_pass_on_severity_at_least) \notin Severity
            THEN [ok |-> FALSE, error |-> "unknown variant"]
            ELSE LET ps == [i \in DOMAIN Written(d.passes) |->
                                PassIfMatch_deserialize(Written(d.passes)[i])]
                 IN  IF \E i \in DOMAIN ps : ~ps[i].ok
                     THEN ps[CHOOSE i \in DOMAIN ps : ~ps[i].ok]
                     ELSE [ok |-> TRUE,
                           value |->
                             [type |-> "PassOnAnyOf",
                              always_pass_on_severity_at_least |->
                                  Written(d.always_pass_on_severity_at_least),
                              passes |-> [i \in DOMAIN ps |-> ps[i].value]]]
      [] d.type = "Custom" ->
            IF d.filter_spec = {} THEN [ok |-> FALSE, error |-> "missing field filter_spec"]
            ELSE [ok |-> TRUE,
                  value |-> [type |-> "Custom", filter_spec |-> Written(d.filter_spec)]]
      [] OTHER -> [ok |-> FALSE, error |-> "unknown variant"]

\* #[derive(Serialize)] on TerminalLoggerConfig: every field is written, a
\* unit variant under its serde name, which is how the model denotes it
TerminalLoggerConfig_serialize(c) ==
    [type |-> "terminal",
     format |-> {c.format},
     source_location |-> {c.source_location},
     timezone |-> {c.timezone},
     destination |-> {c.destination},
     channel_size |-> {c.channel_size},
     evaluation_order |-> {c.evaluation_order},
     filter_config |-> {FilterConfig_serialize(c.filter_config)}]

\* #[derive(Deserialize)] on TerminalLoggerConfig: filter_config carries no
\* serde(default) and is required
TerminalLoggerConfig_deserialize(d) ==
    IF d.filter_config = {}
    THEN [ok |-> FALSE, error |-> "missing field filter_config"]
    ELSE LET fc == FilterConfig_deserialize(Written(d.filter_config))
         IN  IF ~fc.ok THEN fc
             ELSE [ok |-> TRUE,
                   value |->
                     [type |-> "terminal",
                      format |-> FieldOr(d.format, Format_default),
                      source_location |->
                          FieldOr(d.source_location, SourceLocation_default),
                      timezone |-> FieldOr(d.timezone, TimeZone_default),
                      destination |-> FieldOr(d.destination, Destination_default),
                      channel_size |-> FieldOr(d.channel_size, default_channel_size),
                      evaluation_order |->
                          FieldOr(d.evaluation_order, EvaluationOrder_default),
                      filter_config |-> fc.value]]

\* the Serialize of FileLoggerConfig, taken as derived like the terminal one
FileLoggerConfig_serialize(c) ==
    [type |-> "file",
     format |-> {c.format},
     source_location |-> {c.source_location},
     timezone |-> {c.timezone},
     channel_size |-> {c.channel_size},
     evaluation_order |-> {c.evaluation_order},
     filter_config |-> {FilterConfig_serialize(c.filter_config)}]

\* the Deserialize of FileLoggerConfig, reading back the fields written
FileLoggerConfig_deserialize(d) ==
    IF \E f \in {"format", "source_location", "timezone", "channel_size",
                 "evaluation_order", "filter_config"} : d[f] = {}
    THEN [ok |-> FALSE, error |-> "missing field"]
    ELSE LET fc == FilterConfig_deserialize(Written(d.filter_config))
         IN  IF ~fc.ok THEN fc
             ELSE [ok |-> TRUE,
                   value |->
                     [type |-> "file",
                      format |-> Written(d.format),
                      source_location |-> Written(d.source_location),
                      timezone |-> Written(d.timezone),
                      channel_size |-> Written(d.channel_size),
                      evaluation_order |-> Written(d.evaluation_order),
                      filter_config |-> fc.value]]

\* LoggerConfig::deserialize reading the type tag in another letter case
LoggerConfig_deserialize_camel(d) ==
    CASE d.type = "File"     -> FileLoggerConfig_deserialize(d)
      [] d.type = "Null"     -> [ok |-> TRUE, value |-> [type |-> "null"]]
      [] d.type = "Terminal" -> TerminalLoggerConfig_deserialize(d)
      [] OTHER               -> [ok |-> FALSE, error |-> "unknown variant"]

\* #[derive(Deserialize)] #[serde(tag = "type")] on LoggerConfig
LoggerConfig_deserialize(d) ==
    CASE d.type = "file"     -> FileLoggerConfig_deserialize(d)
      [] d.type = "null"     -> [ok |-> TRUE, value |-> [type |-> "null"]]
      [] d.type = "terminal" -> TerminalLoggerConfig_deserialize(d)
      [] OTHER               -> [ok |-> FALSE, error |-> "unknown variant"]

\* #[derive(Serialize)] #[serde(tag = "type")] #[serde(rename_all = "lowercase")]
\* on LoggerConfig
LoggerConfig_serialize(c) ==
    CASE c.type = "file"     -> FileLoggerConfig_serialize(c)
      [] c.type = "null"     -> [type |-> "null"]
      [] c.type = "terminal" -> TerminalLoggerConfig_serialize(c)

\* at most one value of the set
Optional(S) == {{}} \cup {{v} : v \in S}

\* the documents given to the deserializer
Documents ==
    {[type |-> "null"], [type |-> "bogus"]}
    \cup [type : {"terminal"},
          format : Optional(Format),
          source_location : Optional(SourceLocation),
          timezone : Optional(TimeZone),
          destination : Optional(Destination),
          channel_size : Optional({0, 8}),
          evaluation_order : Optional(EvaluationOrder),
          filter_config : Optional({FilterConfig_serialize(fc) : fc \in PipeFilterConfigs})]

ConfInit ==
    /\ doc = [type |-> "null"]
    /\ made = [ok |-> FALSE]
    /\ origin = "none"
    /\ orig = [type |-> "null"]
    /\ tb = [ok |-> FALSE]
    /\ assigned = NoneAssigned
    /\ FilterIdle
    /\ PipeIdle
    /\ ParseIdle

\* LoggerConfig::default()
MakeDefault ==
    /\ origin = "none"
    /\ made' = [ok |-> TRUE, value |-> LoggerConfig_default]
    /\ origin' = "default"
    /\ UNCHANGED <<doc, orig, tb, assigned>>
    /\ UNCHANGED filterVars
    /\ UNCHANGED pipeVars
    /\ UNCHANGED parseVars

\* deserializing a document into a LoggerConfig
Deserialize ==
    /\ origin = "none"
    /\ \E d \in Documents :
        /\ doc' = d
        /\ made' = LoggerConfig_deserialize(d)
    /\ origin' = "document"
    /\ UNCHANGED <<orig, tb, assigned>>
    /\ UNCHANGED filterVars
    /\ UNCHANGED pipeVars
    /\ UNCHANGED parseVars

\* tests::sample_filter_config
sample_filter_config ==
    PassOnAnyOf("info", <<PassIfMatch(<<<<"key1", "value1">>>>, "trace"),
                          PassIfMatch(<<<<"key2", "value2">>>>, "debug")>>)

\* the filter configurations of the values that are serialized
RoundTripFilters ==
    {sample_filter_config}
    \cup {PassOnAnyOf("info", l) : l \in PassListsUpTo(MaxPasses)}
    \cup {Custom(f) : f \in CustomSpecs}

\* the LoggerConfig values that are serialized or converted to a builder
ConfigValues ==
    {[type |-> "null"]}
    \cup [type : {"terminal"}, format : Format, source_location : SourceLocation,
          timezone : TimeZone, destination : Destination,
          channel_size : {0, default_channel_size},
          evaluation_order : EvaluationOrder, filter_config : RoundTripFilters]
    \cup [type : {"file"}, format : Format, source_location : SourceLocation,
          timezone : TimeZone, channel_size : {0, default_channel_size},
          evaluation_order : EvaluationOrder, filter_config : RoundTripFilters]

\* a LoggerConfig value built in the program
MakeValue ==
    /\ origin = "none"
    /\ orig' \in ConfigValues
    /\ origin' = "value"
    /\ UNCHANGED <<doc, made, tb, assigned>>
    /\ UNCHANGED filterVars
    /\ UNCHANGED pipeVars
    /\ UNCHANGED parseVars

\* serializing the value, as the tests do with to_toml_string
Serialize ==
    /\ origin = "value"
    /\ doc' = LoggerConfig_serialize(orig)
    /\ origin' = "serialized"
    /\ UNCHANGED <<made, orig, tb, assigned>>
    /\ UNCHANGED filterVars
    /\ UNCHANGED pipeVars
    /\ UNCHANGED parseVars

\* deserializing what was serialized, as the tests do with from_toml_str
DeserializeAgain ==
    /\ origin = "serialized"
    /\ made' = LoggerConfig_deserialize(doc)
    /\ origin' = "roundtrip"
    /\ UNCHANGED <<doc, orig, tb, assigned>>
    /\ UNCHANGED filterVars
    /\ UNCHANGED pipeVars
    /\ UNCHANGED parseVars

\* config.try_to_builder() on a LoggerConfig value
ToBuilder ==
    /\ origin = "value"
    /\ tb' = LoggerConfig_try_to_builder(orig)
    /\ origin' = "converted"
    /\ UNCHANGED <<doc, made, orig, assigned>>
    /\ UNCHANGED filterVars
    /\ UNCHANGED pipeVars
    /\ UNCHANGED parseVars

\* TerminalLoggerBuilder::new()
NewBuilder ==
    /\ origin = "none"
    /\ tb' = [ok |-> TRUE, builder |-> TerminalLoggerBuilder_new]
    /\ origin' = "builder"
    /\ UNCHANGED <<doc, made, orig, assigned>>
    /\ UNCHANGED filterVars
    /\ UNCHANGED pipeVars
    /\ UNCHANGED parseVars

\* builder.format(v)
SetFormat ==
    /\ origin = "builder"
    /\ \E v \in Format :
        /\ tb' = [tb EXCEPT !.builder = Builder_format(tb.builder, v)]
        /\ assigned' = [assigned EXCEPT !.format = {v}]
    /\ UNCHANGED <<doc, made, origin, orig>>
    /\ UNCHANGED filterVars
    /\ UNCHANGED pipeVars
    /\ UNCHANGED parseVars

\* builder.source_location(v)
SetSourceLocation ==
    /\ origin = "builder"
    /\ \E v \in SourceLocation :
        /\ tb' = [tb EXCEPT !.builder = Builder_source_location(tb.builder, v)]
        /\ assigned' = [assigned EXCEPT !.source_location = {v}]
    /\ UNCHANGED <<doc, made, origin, orig>>
    /\ UNCHANGED filterVars
    /\ UNCHANGED pipeVars
    /\ UNCHANGED parseVars

\* builder.timezone(v)
SetTimeZone ==
    /\ origin = "builder"
    /\ \E v \in TimeZone :
        /\ tb' = [tb EXCEPT !.builder = Builder_timezone(tb.builder, v)]
        /\ assigned' = [assigned EXCEPT !.timezone = {v}]
    /\ UNCHANGED <<doc, made, origin, orig>>
    /\ UNCHANGED filterVars
    /\ UNCHANGED pipeVars
    /\ UNCHANGED parseVars

\* builder.destination(v)
SetDestination ==
    /\ origin = "builder"
    /\ \E v \in Destination :
        /\ tb' = [tb EXCEPT !.builder = Builder_destination(tb.builder, v)]
        /\ assigned' = [assigned EXCEPT !.destination = {v}]
    /\ UNCHANGED <<doc, made, origin, orig>>
    /\ UNCHANGED filterVars
    /\ UNCHANGED pipeVars
    /\ UNCHANGED parseVars

\* builder.channel_size(v)
SetChannelSize ==
    /\ origin = "builder"
    /\ \E v \in {0, 8} :
        /\ tb' = [tb EXCEPT !.builder = Builder_channel_size(tb.builder, v)]
        /\ assigned' = [assigned EXCEPT !.channel_size = {v}]
    /\ UNCHANGED <<doc, made, origin, orig>>
    /\ UNCHANGED filterVars
    /\ UNCHANGED pipeVars
    /\ UNCHANGED parseVars

\* builder.evaluation_order(v)
SetEvaluationOrder ==
    /\ origin = "builder"
    /\ \E v \in EvaluationOrder :
        /\ tb' = [tb EXCEPT !.builder = Builder_evaluation_order(tb.builder, v)]
        /\ assigned' = [assigned EXCEPT !.evaluation_order = {v}]
    /\ UNCHANGED <<doc, made, origin, orig>>
    /\ UNCHANGED filterVars
    /\ UNCHANGED pipeVars
    /\ UNCHANGED parseVars

\* builder.filter_config(v)
SetFilterConfig ==
    /\ origin = "builder"
    /\ \E v \in PipeFilterConfigs :
        /\ tb' = [tb EXCEPT !.builder = Builder_filter_config(tb.builder, v)]
        /\ assigned' = [assigned EXCEPT !.filter_config = {v}]
    /\ UNCHANGED <<doc, made, origin, orig>>
    /\ UNCHANGED filterVars
    /\ UNCHANGED pipeVars
    /\ UNCHANGED parseVars

ConfNext ==
    \/ MakeDefault \/ Deserialize
    \/ MakeValue \/ Serialize \/ DeserializeAgain
    \/ ToBuilder \/ NewBuilder
    \/ SetFormat \/ SetSourceLocation \/ SetTimeZone \/ SetDestination
    \/ SetChannelSize \/ SetEvaluationOrder \/ SetFilterConfig

SpecConfig == ConfInit /\ [][ConfNext]_vars

(***************************************************************************)
(* types.rs: parsing the literal of an enumeration.  A string is the       *)
(* sequence of its characters; a variant is denoted by its serde name.     *)
(***************************************************************************)
\* the characters the Debug formatting of a str escapes, among those used here
Escaped == {"\"", "\\"}

\* char::escape_debug
escape_debug(c) == IF c \in Escaped THEN <<"\\", c>> ELSE <<c>>

RECURSIVE escape_all(_)
\* the characters of s, each through escape_debug
escape_all(s) ==
    IF s = <<>> THEN <<>> ELSE escape_debug(Head(s)) \o escape_all(Tail(s))

\* the {:?} of a str: between double quotes, its characters escaped
fmt_Debug(s) == <<"\"">> \o escape_all(s) \o <<"\"">>

\* track_panic!(kind, message): an Err of that kind is returned
track_panic(kind, message) == [ok |-> FALSE, kind |-> kind, message |-> message]

\* Ok(variant)
Ok(variant) == [ok |-> TRUE, value |-> variant]

\* Severity::from_str with an error message that leaves the literal out
Severity_from_str_bare(s) ==
    CASE s = <<"t", "r", "a", "c", "e">> -> Ok("trace")
      [] s = <<"d", "e", "b", "u", "g">> -> Ok("debug")
      [] s = <<"i", "n", "f", "o">> -> Ok("info")
      [] s = <<"w", "a", "r", "n", "i", "n", "g">> -> Ok("warning")
      [] s = <<"e", "r", "r", "o", "r">> -> Ok("error")
      [] s = <<"c", "r", "i", "t", "i", "c", "a", "l">> -> Ok("critical")
      [] OTHER ->
            track_panic("Invalid",
                <<"U", "n", "d", "e", "f", "i", "n", "e", "d", " ", "s",
                  "e", "v", "e", "r", "i", "t", "y", ":", " ">>)

\* impl FromStr for Severity
Severity_from_str(s) ==
    CASE s = <<"t", "r", "a", "c", "e">> -> Ok("trace")
      [] s = <<"d", "e", "b", "u", "g">> -> Ok("debug")
      [] s = <<"i", "n", "f", "o">> -> Ok("info")
      [] s = <<"w", "a", "r", "n", "i", "n", "g">> -> Ok("warning")
      [] s = <<"e", "r", "r", "o", "r">> -> Ok("error")
      [] s = <<"c", "r", "i", "t", "i", "c", "a", "l">> -> Ok("critical")
      [] OTHER ->
            track_panic("Invalid",
                <<"U", "n", "d", "e", "f", "i", "n", "e", "d", " ", "s",
                  "e", "v", "e", "r", "i", "t", "y", ":", " ">>
                \o fmt_Debug(s))

\* impl FromStr for Format
Format_from_str(s) ==
    CASE s = <<"f", "u", "l", "l">> -> Ok("full")
      [] s = <<"c", "o", "m", "p", "a", "c", "t">> -> Ok("compact")
      [] OTHER ->
            track_panic("Invalid",
                <<"U", "n", "d", "e", "f", "i", "n", "e", "d", " ", "l",
                  "o", "g", " ", "f", "o", "r", "m", "a", "t", ":", " ">>
                \o fmt_Debug(s))

\* impl FromStr for TimeZone
TimeZone_from_str(s) ==
    CASE s = <<"u", "t", "c">> -> Ok("utc")
      [] s = <<"l", "o", "c", "a", "l">> -> Ok("local")
      [] OTHER ->
            track_panic("Invalid",
                <<"U", "n", "d", "e", "f", "i", "n", "e", "d", " ", "t",
                  "i", "m", "e", " ", "z", "o", "n", "e", ":", " ">>
                \o fmt_Debug(s))

\* impl FromStr for SourceLocation
SourceLocation_from_str(s) ==
    CASE s = <<"n", "o", "n", "e">> -> Ok("none")
      [] s = <<"m", "o", "d", "u", "l", "e", "_", "a", "n", "d", "_", "l",
               "i", "n", "e">> -> Ok("module_and_line")
      [] OTHER ->
            track_panic("Invalid",
                <<"U", "n", "d", "e", "f", "i", "n", "e", "d", " ", "s",
                  "o", "u", "r", "c", "e", " ", "c", "o", "d", "e", " ",
                  "l", "o", "c", "a", "t", "i", "o", "n", ":", " ">>
                \o fmt_Debug(s))

\* the enumerations with a from_str
Enumerations == {"Severity", "Format", "TimeZone", "SourceLocation"}

\* the characters the made-up strings are written with
Alphabet == {"e", "\"", "\\"}

RECURSIVE StringsUpTo(_)
\* the strings of at most n characters of the alphabet
StringsUpTo(n) ==
    IF n = 0 THEN {<<>>}
    ELSE LET shorter == StringsUpTo(n - 1)
         IN  shorter \cup
             {Append(t, c) : t \in {u \in shorter : Len(u) = n - 1}, c \in Alphabet}

\* the strings given to from_str: every canonical literal, misspellings of
\* them, and the strings of the alphabet
Literals ==
    {<<"t", "r", "a", "c", "e">>,
     <<"d", "e", "b", "u", "g">>,
     <<"i", "n", "f", "o">>,
     <<"w", "a", "r", "n", "i", "n", "g">>,
     <<"e", "r", "r", "o", "r">>,
     <<"c", "r", "i", "t", "i", "c", "a", "l">>,
     <<"f", "u", "l", "l">>,
     <<"c", "o", "m", "p", "a", "c", "t">>,
     <<"u", "t", "c">>,
     <<"l", "o", "c", "a", "l">>,
     <<"n", "o", "n", "e">>,
     <<"m", "o", "d", "u", "l", "e", "_", "a", "n", "d", "_", "l", "i",
       "n", "e">>,
     <<"b", "o", "g", "u", "s">>,
     <<>>,
     <<"T", "r", "a", "c", "e">>,
     <<"I", "N", "F", "O">>,
     <<"F", "u", "l", "l">>,
     <<"U", "T", "C">>,
     <<"L", "o", "c", "a", "l">>,
     <<"N", "o", "n", "e">>,
     <<"m", "o", "d", "u", "l", "e", "A", "n", "d", "L", "i", "n", "e">>,
     <<"w", "a", "r", "n">>,
     <<" ", "i", "n", "f", "o">>}
    \cup StringsUpTo(MaxLiteral)

ParseInit ==
    /\ which \in Enumerations
    /\ literal \in Literals
    /\ parsed = [ok |-> FALSE]
    /\ ppc = "new"
    /\ FilterIdle
    /\ PipeIdle
    /\ ConfIdle

\* literal.parse::<Severity>()
ParseSeverity ==
    /\ ppc = "new"
    /\ which = "Severity"
    /\ parsed' = Severity_from_str(literal)
    /\ ppc' = "parsed"
    /\ UNCHANGED <<which, literal>>
    /\ UNCHANGED filterVars
    /\ UNCHANGED pipeVars
    /\ UNCHANGED confVars

\* literal.parse::<Format>()
ParseFormat ==
    /\ ppc = "new"
    /\ which = "Format"
    /\ parsed' = Format_from_str(literal)
    /\ ppc' = "parsed"
    /\ UNCHANGED <<which, literal>>
    /\ UNCHANGED filterVars
    /\ UNCHANGED pipeVars
    /\ UNCHANGED confVars

\* literal.parse::<TimeZone>()
ParseTimeZone ==
    /\ ppc = "new"
    /\ which = "TimeZone"
    /\ parsed' = TimeZone_from_str(literal)
    /\ ppc' = "parsed"
    /\ UNCHANGED <<which, literal>>
    /\ UNCHANGED filterVars
    /\ UNCHANGED pipeVars
    /\ UNCHANGED confVars

\* literal.parse::<SourceLocation>()
ParseSourceLocation ==
    /\ ppc = "new"
    /\ which = "SourceLocation"
    /\ parsed' = SourceLocation_from_str(literal)
    /\ ppc' = "parsed"
    /\ UNCHANGED <<which, literal>>
    /\ UNCHANGED filterVars
    /\ UNCHANGED pipeVars
    /\ UNCHANGED confVars

ParseNext == ParseSeverity \/ ParseFormat \/ ParseTimeZone \/ ParseSourceLocation

SpecParse == ParseInit /\ [][ParseNext]_vars

(***************************************************************************)
(* What the claims are stated with.                                        *)
(***************************************************************************)
\* the rank of a record's level, Trace lowest, as the severity of the record
LevelRank(l) ==
    CASE l = "Trace"    -> 0
      [] l = "Debug"    -> 1
      [] l = "Info"     -> 2
      [] l = "Warning"  -> 3
      [] l = "Error"    -> 4
      [] l = "Critical" -> 5

\* every pair of the pass is among the attributes kv
PairsPresent(p, kv) ==
    \A i \in DOMAIN p.keys_and_values : p.keys_and_values[i] \in kv

\* the pass lets a record of rank r with attributes kv through
PassMatches(p, r, kv) ==
    r >= SeverityOrd(p.severity_at_least) /\ PairsPresent(p, kv)

\* the PassOnAnyOf configuration lets a record of rank r with attributes kv through
ShouldPass(c, r, kv) ==
    \/ r >= SeverityOrd(c.always_pass_on_severity_at_least)
    \/ \E i \in DOMAIN c.passes : PassMatches(c.passes[i], r, kv)

\* the records of a sequence of log, channel or sink entries
RECURSIVE RecsOf(_)
RecsOf(entries) ==
    IF entries = <<>> THEN <<>> ELSE <<Head(entries).rec>> \o RecsOf(Tail(entries))

IsSent(e)    == e.fate = "sent"
IsPassed(e)  == e.fate # "rejected"
IsRecord(m)  == m.msg = "Record"

\* the records the sink has received, in order
SinkRecs   == RecsOf(sink)
\* the records the channel accepted, in the order of the log calls
SentRecs   == RecsOf(SelectSeq(log, IsSent))
\* the records that passed the filter, in the order of the log calls
PassedRecs == RecsOf(SelectSeq(log, IsPassed))
\* no log call was made after the guard began to close
NoLateLog  == \A i \in DOMAIN log : ~log[i].late
\* the size of the channel of the built chain
ChanSize   == logger.drain[CHOOSE i \in DOMAIN logger.drain :
                               logger.drain[i].layer = "async"].chan_size

(***************************************************************************)
(* The claims.                                                             *)
(***************************************************************************)
\* C1: the filter compiled from PassOnAnyOf{T, P} accepts a record (s, kv)
\* exactly when s >= T or some pass of P has s >= its severity and all its
\* pairs in kv; Custom{filter_spec} compiles to filter_spec itself.
C1_PassOnAnyOf ==
    /\ (fpc = "evaluated" /\ subject.type = "PassOnAnyOf") =>
            (verdict.accepted <=>
                ShouldPass(subject, SeverityOrd(verdict.severity), verdict.kv))
    /\ (fpc \in {"compiled", "evaluated"} /\ subject.type = "Custom") =>
            compiled = subject.filter_spec

\* a Debug record carrying key1=value1 passed the filter of threshold Info with
\* the one pass (key1=value1, Debug)
C1_Witness ==
    /\ fpc = "evaluated"
    /\ subject = PassOnAnyOf("info", <<PassIfMatch(<<<<"key1", "value1">>>>, "debug")>>)
    /\ verdict.severity = "debug"
    /\ verdict.kv = {<<"key1", "value1">>}
    /\ verdict.accepted

\* C2: the filter compiled from a PassIfMatch accepts a record exactly when
\* its severity is at least severity_at_least and every pair of
\* keys_and_values is among its attributes.
C2_PassIfMatch ==
    (fpc = "evaluated" /\ subject.type = "PassIfMatch") =>
        (verdict.accepted <=>
            PassMatches(subject, SeverityOrd(verdict.severity), verdict.kv))

\* a Critical record lacking one of the two required pairs was rejected
C2_Witness ==
    /\ fpc = "evaluated"
    /\ subject = PassIfMatch(<<<<"key1", "value1">>, <<"key2", "value2">>>>, "trace")
    /\ verdict.severity = "critical"
    /\ verdict.kv = {<<"key1", "value1">>}
    /\ ~verdict.accepted

\* C3: the drain composition returns a guard, and runs a worker, exactly when
\* channel_size > 0.
C3_GuardIffAsync ==
    (phase = "built" /\ builder.kind \in {"File", "Terminal"}) =>
        /\ (ret_guard = "Some" <=> builder.channel_size > 0)
        /\ (worker # "none" <=> builder.channel_size > 0)

\* C4 as claimed: with a single producer, once the guard is closed the sink
\* holds every record that passed the filter, in order, however many they were.
C4_AllPassedWritten ==
    (guard = "closed" /\ ChanSize > 0 /\ Cardinality(producers) <= 1 /\ NoLateLog) =>
        SinkRecs = PassedRecs

\* C4: with a single producer, once the guard is closed the sink holds exactly
\* the records the channel accepted, each once, in the order they were
\* enqueued, written by the worker before the close returned; these are all
\* the records that passed the filter when they are no more than channel_size.
C4_EnqueuedWritten ==
    (guard = "closed" /\ Cardinality(producers) <= 1 /\ NoLateLog) =>
        /\ SinkRecs = SentRecs
        /\ worker = "done"
        /\ (Len(PassedRecs) <= ChanSize => SinkRecs = PassedRecs)

\* three records passed the filter of a chain whose channel takes two, the
\* guard is closed, and two of them are in the sink
C4_Witness ==
    /\ guard = "closed"
    /\ ChanSize = 2
    /\ Cardinality(producers) = 1
    /\ NoLateLog
    /\ Len(PassedRecs) = 3
    /\ Len(SinkRecs) = 2

\* C5: the chain is, from the sink outwards, sink, asynchronous stage, filter,
\* with the source-location field bound at the logger; a log call is rejected
\* on the calling thread exactly when the filter refuses its record, and only
\* records the filter accepted are in the channel, with the worker or in the
\* sink.
C5_FilterBeforeAsync ==
    (phase = "built" /\ builder.kind \in {"File", "Terminal"}) =>
        /\ Len(logger.drain) = 3
        /\ logger.drain[3].layer = "sink"
        /\ logger.drain[2].layer = "async"
        /\ logger.drain[1].layer = "kvfilter"
        /\ (logger.values = {"module"} <=> builder.source_location = "module_and_line")
        /\ \A i \in DOMAIN log :
                (log[i].fate = "rejected" <=>
                    ~ShouldPass(builder.filter_config, LevelRank(log[i].rec.level),
                                log[i].rec.kv \cup log[i].rec.values))
        /\ \A i \in DOMAIN chan :
                IsRecord(chan[i]) =>
                    ShouldPass(builder.filter_config, LevelRank(chan[i].rec.level),
                               chan[i].rec.kv \cup chan[i].rec.values)
        /\ worker = "writing" =>
                ShouldPass(builder.filter_config, LevelRank(cur.rec.level),
                           cur.rec.kv \cup cur.rec.values)
        /\ \A i \in DOMAIN sink :
                ShouldPass(builder.filter_config, LevelRank(sink[i].rec.level),
                           sink[i].rec.kv \cup sink[i].rec.values)

\* a Debug record was rejected at the filter and a Debug record carrying
\* key1=value1 reached the sink
C5_Witness ==
    /\ phase = "built"
    /\ \E i \in DOMAIN log : log[i].fate = "rejected" /\ log[i].rec.level = "Debug"
    /\ \E i \in DOMAIN sink : sink[i].rec.level = "Debug"

\* C6: in a chain with the asynchronous stage there is one worker thread, and
\* every write to the sink is made by it, one record at a time: no caller
\* thread writes.
C6_WorkerOwnsSink ==
    (phase = "built" /\ HasAsync(logger.drain)) =>
        /\ worker \in {"recv", "writing", "done"}
        /\ \A i \in DOMAIN sink : sink[i].writer = WorkerThread
        /\ \A i \in DOMAIN log : log[i].fate # "written"
        /\ worker = "writing" => \A i \in DOMAIN sink : sink[i].rec.id # cur.rec.id

\* two caller threads have logged through a channel of positive size, two
\* records are in the sink and the worker is writing a third
C6_Witness ==
    /\ phase = "built"
    /\ HasAsync(logger.drain)
    /\ ChanSize > 0
    /\ producers = Callers
    /\ Len(sink) = 2
    /\ worker = "writing"

\* C7: the Null configuration always converts to its builder, the build
\* always succeeds, returns no guard and starts no worker, and the logger
\* discards every record.
C7_NullNeverFails ==
    config.type = "null" =>
        /\ phase \in {"config", "new", "built"}
        /\ phase \in {"new", "built"} => builder = NullLoggerBuilder
        /\ ret_guard = "None"
        /\ guard = "none"
        /\ worker = "none"
        /\ chan = <<>>
        /\ sink = <<>>
        /\ \A i \in DOMAIN log : log[i].fate = "discarded"

\* the Null logger is built and has been given three records
C7_Witness ==
    /\ config.type = "null"
    /\ phase = "built"
    /\ Len(log) = 3

\* the decorator of the built terminal chain
Decorator == logger.drain[Len(logger.drain)].desc.decorator

\* C8: the decorator of a terminal logger is bound to the requested stream;
\* when the terminal acquisition failed it is the plain decorator of that
\* stream and the build still succeeds; it is plain only then.
C8_SameStream ==
    (builder.kind = "Terminal" /\ phase \in {"built", "failed"}) =>
        /\ phase = "built"
        /\ Decorator.stream = builder.destination
        /\ (term = "failed" /\ builder.destination = "stdout") =>
                Decorator.variant = "PlainStdout"
        /\ (term = "failed" /\ builder.destination = "stderr") =>
                Decorator.variant = "PlainStderr"
        /\ term = "ok" => Decorator.variant = "Term"

\* the terminal acquisition failed for standard error and the decorator is the
\* plain one of standard error
C8_Witness ==
    /\ phase = "built"
    /\ builder.kind = "Terminal"
    /\ builder.destination = "stderr"
    /\ term = "failed"
    /\ Decorator.variant = "PlainStderr"

\* C9: LoggerConfig::default() is the Terminal variant with format Full,
\* source_location ModuleAndLine, timezone Local, destination Stdout,
\* channel_size 1024 and the filter PassOnAnyOf(Info, no passes), the values
\* TerminalLoggerBuilder::new() starts from.
C9_DefaultIsDocumented ==
    origin = "default" =>
        /\ made.ok
        /\ made.value.type = "terminal"
        /\ made.value.format = "full"
        /\ made.value.source_location = "module_and_line"
        /\ made.value.timezone = "local"
        /\ made.value.destination = "stdout"
        /\ made.value.channel_size = 1024
        /\ made.value.filter_config = PassOnAnyOf("info", <<>>)
        /\ \A f \in {"format", "source_location", "timezone", "destination",
                     "channel_size", "filter_config"} :
                made.value[f] = TerminalLoggerBuilder_new[f]

\* the value a field of a terminal document must come out with
Expected(d, f) ==
    IF d[f] # {}
    THEN IF f = "filter_config"
         THEN CHOOSE c \in PipeFilterConfigs : FilterConfig_serialize(c) = Written(d[f])
         ELSE Written(d[f])
    ELSE CASE f = "format"           -> "full"
           [] f = "source_location"  -> "module_and_line"
           [] f = "timezone"         -> "local"
           [] f = "destination"      -> "stdout"
           [] f = "channel_size"     -> 1024
           [] f = "evaluation_order" -> EvaluationOrder_default
           [] f = "filter_config"    -> PassOnAnyOf("info", <<>>)

\* C10: a terminal document that omits any of its fields deserializes, each
\* omitted field taking its default and each written field its written value.
C10_FieldsDefaulted ==
    (origin = "document" /\ doc.type = "terminal") =>
        /\ made.ok
        /\ \A f \in {"format", "source_location", "timezone", "destination",
                     "channel_size", "evaluation_order", "filter_config"} :
                made.value[f] = Expected(doc, f)

Canonical ==
    {<<"Severity", <<"t", "r", "a", "c", "e">>, "trace">>,
     <<"Severity", <<"d", "e", "b", "u", "g">>, "debug">>,
     <<"Severity", <<"i", "n", "f", "o">>, "info">>,
     <<"Severity", <<"w", "a", "r", "n", "i", "n", "g">>, "warning">>,
     <<"Severity", <<"e", "r", "r", "o", "r">>, "error">>,
     <<"Severity", <<"c", "r", "i", "t", "i", "c", "a", "l">>, "critical">>,
     <<"Format", <<"f", "u", "l", "l">>, "full">>,
     <<"Format", <<"c", "o", "m", "p", "a", "c", "t">>, "compact">>,
     <<"TimeZone", <<"u", "t", "c">>, "utc">>,
     <<"TimeZone", <<"l", "o", "c", "a", "l">>, "local">>,
     <<"SourceLocation", <<"n", "o", "n", "e">>, "none">>,
     <<"SourceLocation", <<"m", "o", "d", "u", "l", "e", "_", "a", "n", "d",
                        "_", "l", "i", "n", "e">>, "module_and_line">>}

\* the string t holds the string s as a run of consecutive characters
Contains(t, s) ==
    \E i \in 0..Len(t) : i + Len(s) <= Len(t) /\ SubSeq(t, i + 1, i + Len(s)) = s

\* the literal is one of the enumeration's canonical ones
IsCanonical == \E c \in Canonical : c[1] = which /\ c[2] = literal

Composed == phase = "built" /\ config.type \in {"file", "terminal"}

\* C13: with SourceLocation::ModuleAndLine every record reaching the sink
\* carries one bound field "module" whose value is "<module>:<line>" of the
\* record's own call site, so records from different lines carry different
\* values; with SourceLocation::None the logger has no bound field and no
\* record carries one.
C13_SourceLocationPolicy ==
    Composed =>
        IF config.source_location = "module_and_line"
        THEN /\ logger.values = {"module"}
             /\ \A i \in DOMAIN sink :
                    sink[i].rec.values = {<<"module", <<"app", ":", sink[i].rec.line>>>>}
             /\ \A i, j \in DOMAIN sink :
                    sink[i].rec.line # sink[j].rec.line
                        => sink[i].rec.values # sink[j].rec.values
        ELSE /\ config.source_location = "none"
             /\ logger.values = {}
             /\ \A i \in DOMAIN sink : sink[i].rec.values = {}

\* two records logged from different lines reached the sink of a logger that
\* annotates the source location
C13_Witness ==
    /\ Composed
    /\ config.source_location = "module_and_line"
    /\ \E i, j \in DOMAIN sink :
            /\ sink[i].rec.line = 20
            /\ sink[j].rec.line = 30
            /\ sink[i].rec.values # {}

\* the LoggerBuilder variant a LoggerConfig variant is converted to
VariantOf(type) ==
    CASE type = "file" -> "File" [] type = "null" -> "Null" [] type = "terminal" -> "Terminal"

\* a converted configuration gave a builder of its own variant, and a terminal
\* one a builder holding its seven fields
Converted ==
    origin = "converted" =>
        /\ tb.ok
        /\ tb.builder.kind = VariantOf(orig.type)
        /\ orig.type = "terminal" =>
                \A f \in {"format", "source_location", "timezone", "destination",
                          "channel_size", "evaluation_order", "filter_config"} :
                    tb.builder[f] = orig[f]

\* a builder holds, for each field, the value last given to that field's
\* setter, or the value of new() when the setter was never called
SettersCommute ==
    origin = "builder" =>
        \A f \in {"format", "source_location", "timezone", "destination",
                  "channel_size", "evaluation_order", "filter_config"} :
            \/ assigned[f] = {} /\ tb.builder[f] = TerminalLoggerBuilder_new[f]
            \/ assigned[f] = {tb.builder[f]}

\* C14: try_to_builder maps a File, Null or Terminal configuration to the
\* builder of the same variant and leaves the configuration as it was; for a
\* terminal configuration it succeeds and the builder holds the configuration's
\* seven fields; each setter changes its own field only, so a builder depends
\* on the last value given to each setter and not on the order of the calls.
C14_ConversionPreserves ==
    /\ [](Converted /\ SettersCommute)
    /\ [][origin' = "converted" => orig' = orig]_vars

\* a terminal configuration with no field at its default was converted
C14_Witness ==
    /\ origin = "converted"
    /\ tb.ok
    /\ orig.type = "terminal"
    /\ orig.format = "compact"
    /\ orig.source_location = "none"
    /\ orig.timezone = "utc"
    /\ orig.destination = "stderr"
    /\ orig.channel_size = 0
    /\ orig.evaluation_order = "MessageAndLogger"
    /\ orig.filter_config = sample_filter_config

====
